---- MODULE Spec2Model ----
(***************************************************************************)
(* Model of snips_nlu/dataset/dataset.py: the Dataset constructor          *)
(* (_add_missing_entities, _ensure_entity_values, _get_entity_values) and  *)
(* the YAML loader Dataset.from_yaml_files.                                *)
(*                                                                         *)
(* An utterance is modelled by its slot_chunks list (plain-text chunks are *)
(* never read by this file); an intent by its utterances list; a slot      *)
(* chunk is a record [entity, text], text being None or a string.          *)
(***************************************************************************)
EXTENDS Naturals, Sequences, FiniteSets

VARIABLES
    pc,               \* position of the running call
    files,            \* from_yaml_files: the documents of each file, in order
    dpos,             \* from_yaml_files: documents already taken from the files
    parsed,           \* from_yaml_files: number of from_yaml calls made so far
    entities,         \* the entities list (local of the loader, then self.entities)
    intents,          \* the intents list (local of the loader, then self.intents)
    examples,         \* get_builtin_entity_examples(name, language), per builtin name
    entities_values,  \* _ensure_entity_values: name -> cycle iterator
    cursor,           \* _ensure_entity_values: slot chunks already visited
    raised,           \* the exception that ended the call, or NoError
    intents0,         \* the intents as passed to the constructor
    entities0         \* the entities as passed to the constructor

vars == <<pc, files, dpos, parsed, entities, intents, examples,
          entities_values, cursor, raised, intents0, entities0>>

-----------------------------------------------------------------------------
(* Bounds of the checked inputs *)

MaxChunks == 3      \* slot chunks of a dataset
MaxValues == 2      \* declared value groups of an entity
MaxEntities == 2    \* entities passed to the constructor
MaxDocs == 3        \* YAML documents of a from_yaml_files call

-----------------------------------------------------------------------------
(* Values *)

None == "None"               \* Python's None; no text of the inputs is this string
CustomName == "city"         \* the name of an entity that is not builtin
BuiltinName == "snips/number"

NoError == [type |-> "none", at |-> "", args |-> <<>>]
\* class DatasetFormatError(TypeError): the method raising it and the values
\* formatted into its message
DatasetFormatError(at, args) == [type |-> "DatasetFormatError", at |-> at, args |-> args]

Range(s) == {s[i] : i \in 1..Len(s)}
SeqsUpTo(S, n) == UNION {[1..k -> S] : k \in 0..n}

RECURSIVE Concat(_)
Concat(ss) == IF ss = <<>> THEN <<>> ELSE Head(ss) \o Concat(Tail(ss))

-----------------------------------------------------------------------------
(* Collaborators defined outside dataset.py *)

\* Entity.is_builtin: derived from the entity's name
is_builtin(entity) == entity.name = BuiltinName

\* Entity(name=entity_name): an entity with no declared values
NewEntity(name) == [name |-> name, utterances |-> <<>>]

\* a group giving its primary value and its variant spellings
variationsAll(utterance) == <<utterance.value>> \o utterance.synonyms

\* EntityUtterance.variations: what one declared value group gives the pool
variations(utterance) == <<utterance.value>>

\* Intent.entities_names: the entity names of the intent's slot chunks
entities_names(intent) == Concat([u \in 1..Len(intent) |->
                              [c \in 1..Len(intent[u]) |-> intent[u][c].entity]])

\* get_builtin_entity_examples(entity.name, self.language)
get_builtin_entity_examples(name) == examples[name]

\* Entity.from_yaml(doc) / Intent.from_yaml(doc): the delegated parsers
EntityFromYaml(doc) == doc.body
IntentFromYaml(doc) == doc.body

-----------------------------------------------------------------------------
(* Traversal: for intent in intents, for utterance in intent.utterances,   *)
(* for chunk in utterance.slot_chunks                                       *)

Positions(ints) ==
    Concat([i \in 1..Len(ints) |->
        Concat([u \in 1..Len(ints[i]) |->
            [c \in 1..Len(ints[i][u]) |-> <<i, u, c>>]])])

ChunkAt(ints, p) == ints[p[1]][p[2]][p[3]]

\* the slot chunks in the order of that traversal
SlotChunks(ints) == Concat([i \in 1..Len(ints) |-> Concat(ints[i])])

\* the value bound to a local name, the chunk left as it was
SetTextLocal(ints, p, t) == ints

SetText(ints, p, t) == [ints EXCEPT ![p[1]][p[2]][p[3]].text = t]

-----------------------------------------------------------------------------
(* itertools.cycle over a list: next() raises StopIteration on an empty    *)
(* list, else returns the items round-robin                                *)

Cycle(values) == [items |-> values, pos |-> 0]
CycleEmpty(it) == it.items = <<>>
CycleNext(it) == it.items[it.pos + 1]
\* an iterator that never moves on
CycleStay(it) == it

CycleAdvance(it) == [it EXCEPT !.pos = (it.pos + 1) % Len(it.items)]

-----------------------------------------------------------------------------
(* _add_missing_entities (lines 143-151) *)

RECURSIVE AddNamesNoAdd(_, _, _)
\* the inner loop without entity_names.add(entity_name)
AddNamesNoAdd(names, acc, k) ==
    IF k > Len(names) THEN acc
    ELSE IF names[k] \notin acc.entity_names
         THEN AddNamesNoAdd(names,
                            [entities |-> Append(acc.entities, NewEntity(names[k])),
                             entity_names |-> acc.entity_names],
                            k + 1)
         ELSE AddNamesNoAdd(names, acc, k + 1)

RECURSIVE AddNames(_, _, _)
\* the inner loop: names is intent.entities_names, acc = [entities, entity_names]
AddNames(names, acc, k) ==
    IF k > Len(names) THEN acc
    ELSE IF names[k] \notin acc.entity_names
         THEN AddNames(names,
                       [entities |-> Append(acc.entities, NewEntity(names[k])),
                        entity_names |-> acc.entity_names \cup {names[k]}],
                       k + 1)
         ELSE AddNames(names, acc, k + 1)

RECURSIVE AddIntents(_, _, _)
AddIntents(ints, acc, i) ==
    IF i > Len(ints) THEN acc
    ELSE AddIntents(ints, AddNames(entities_names(ints[i]), acc, 1), i + 1)

_add_missing_entities(ents, ints) ==
    AddIntents(ints, [entities |-> ents,
                      entity_names |-> {ents[e].name : e \in 1..Len(ents)}], 1).entities

-----------------------------------------------------------------------------
(* _get_entity_values (lines 169-184) *)

RECURSIVE ScanChunksNoAppend(_, _, _, _)
\* the loop without values.append(chunk.text)
ScanChunksNoAppend(chunks, name, acc, k) ==
    IF k > Len(chunks) THEN acc
    ELSE LET chunk == chunks[k] IN
         IF chunk.text = None \/ chunk.text = "" \/ chunk.entity # name
         THEN ScanChunksNoAppend(chunks, name, acc, k + 1)
         ELSE IF chunk.text \notin acc.values_set
              THEN ScanChunksNoAppend(chunks, name,
                                      [values |-> acc.values,
                                       values_set |-> acc.values_set \cup {chunk.text}],
                                      k + 1)
              ELSE ScanChunksNoAppend(chunks, name, acc, k + 1)

RECURSIVE ScanChunksKeepEmpty(_, _, _, _)
\* the loop testing chunk.text is None in place of not chunk.text
ScanChunksKeepEmpty(chunks, name, acc, k) ==
    IF k > Len(chunks) THEN acc
    ELSE LET chunk == chunks[k] IN
         IF chunk.text = None \/ chunk.entity # name
         THEN ScanChunksKeepEmpty(chunks, name, acc, k + 1)
         ELSE IF chunk.text \notin acc.values_set
              THEN ScanChunksKeepEmpty(chunks, name,
                                       [values |-> Append(acc.values, chunk.text),
                                        values_set |-> acc.values_set \cup {chunk.text}],
                                       k + 1)
              ELSE ScanChunksKeepEmpty(chunks, name, acc, k + 1)

RECURSIVE ScanChunksNoCheck(_, _, _, _)
\* the loop without the test chunk.text not in values_set
ScanChunksNoCheck(chunks, name, acc, k) ==
    IF k > Len(chunks) THEN acc
    ELSE LET chunk == chunks[k] IN
         IF chunk.text = None \/ chunk.text = "" \/ chunk.entity # name
         THEN ScanChunksNoCheck(chunks, name, acc, k + 1)
         ELSE ScanChunksNoCheck(chunks, name,
                                [values |-> Append(acc.values, chunk.text),
                                 values_set |-> acc.values_set \cup {chunk.text}],
                                k + 1)

RECURSIVE ScanChunks(_, _, _, _)
\* the loop of lines 176-183 over the slot chunks, acc = [values, values_set]
ScanChunks(chunks, name, acc, k) ==
    IF k > Len(chunks) THEN acc
    ELSE LET chunk == chunks[k] IN
         IF chunk.text = None \/ chunk.text = "" \/ chunk.entity # name
         THEN ScanChunks(chunks, name, acc, k + 1)
         ELSE IF chunk.text \notin acc.values_set
              THEN ScanChunks(chunks, name,
                              [values |-> Append(acc.values, chunk.text),
                               values_set |-> acc.values_set \cup {chunk.text}],
                              k + 1)
              ELSE ScanChunks(chunks, name, acc, k + 1)

\* lines 173-174: the declared values
DeclaredValues(entity) ==
    Concat([u \in 1..Len(entity.utterances) |-> variations(entity.utterances[u])])

_get_entity_values(entity, ints) ==
    IF is_builtin(entity)
    THEN Cycle(get_builtin_entity_examples(entity.name))
    ELSE LET values == DeclaredValues(entity) IN
         Cycle(ScanChunks(SlotChunks(ints), entity.name,
                          [values |-> values, values_set |-> Range(values)], 1).values)

\* lines 154-155: the dict comprehension; a later entity of the same name
\* replaces an earlier one
LastIndex(ents, name) ==
    CHOOSE e \in 1..Len(ents) :
        /\ ents[e].name = name
        /\ \A f \in (e + 1)..Len(ents) : ents[f].name # name

BuildEntitiesValues(ents, ints) ==
    [name \in {ents[e].name : e \in 1..Len(ents)} |->
        _get_entity_values(ents[LastIndex(ents, name)], ints)]

-----------------------------------------------------------------------------
(* Dataset.__init__ (lines 34-39) *)

\* line 38
AddMissingEntities ==
    /\ pc = "add_missing_entities"
    /\ entities' = _add_missing_entities(entities, intents)
    /\ pc' = "ensure_entity_values"
    /\ UNCHANGED <<files, dpos, parsed, intents, examples, entities_values,
                   cursor, raised, intents0, entities0>>

\* lines 154-155
BuildValues ==
    /\ pc = "ensure_entity_values"
    /\ entities_values' = BuildEntitiesValues(entities, intents)
    /\ pc' = "fill"
    /\ UNCHANGED <<files, dpos, parsed, entities, intents, examples,
                   cursor, raised, intents0, entities0>>

\* the test written as a truth test: if chunk.text
HasTextTruthy(chunk) == chunk.text \notin {None, ""}

\* line 159: chunk.text is not None
HasText(chunk) == chunk.text # None

\* lines 159-160: the chunk has a text
SkipChunk ==
    /\ pc = "fill"
    /\ LET pos == Positions(intents) IN
          /\ cursor < Len(pos)
          /\ HasText(ChunkAt(intents, pos[cursor + 1]))
    /\ cursor' = cursor + 1
    /\ UNCHANGED <<pc, files, dpos, parsed, entities, intents, examples,
                   entities_values, raised, intents0, entities0>>

\* the fill adding the text it wrote to the values of the entity
FillChunkFeedsPool ==
    /\ pc = "fill"
    /\ LET pos == Positions(intents) IN
          /\ cursor < Len(pos)
          /\ LET chunk == ChunkAt(intents, pos[cursor + 1])
                 it == entities_values[chunk.entity]
             IN /\ ~HasText(chunk)
                /\ ~CycleEmpty(it)
                /\ intents' = SetText(intents, pos[cursor + 1], CycleNext(it))
                /\ entities_values' =
                       [entities_values EXCEPT ![chunk.entity] =
                           [items |-> Append(it.items, CycleNext(it)),
                            pos |-> (it.pos + 1) % Len(it.items)]]
    /\ cursor' = cursor + 1
    /\ UNCHANGED <<pc, files, dpos, parsed, entities, examples, raised,
                   intents0, entities0>>

\* lines 161-162: the chunk takes the next value of its entity
FillChunk ==
    /\ pc = "fill"
    /\ LET pos == Positions(intents) IN
          /\ cursor < Len(pos)
          /\ LET chunk == ChunkAt(intents, pos[cursor + 1])
                 it == entities_values[chunk.entity]
             IN /\ ~HasText(chunk)
                /\ ~CycleEmpty(it)
                /\ intents' = SetText(intents, pos[cursor + 1], CycleNext(it))
                /\ entities_values' =
                       [entities_values EXCEPT ![chunk.entity] = CycleAdvance(it)]
    /\ cursor' = cursor + 1
    /\ UNCHANGED <<pc, files, dpos, parsed, entities, examples, raised,
                   intents0, entities0>>

\* lines 163-166: StopIteration becomes DatasetFormatError
RaiseNoValue ==
    /\ pc = "fill"
    /\ LET pos == Positions(intents) IN
          /\ cursor < Len(pos)
          /\ LET chunk == ChunkAt(intents, pos[cursor + 1]) IN
                /\ ~HasText(chunk)
                /\ CycleEmpty(entities_values[chunk.entity])
                /\ raised' = DatasetFormatError("_ensure_entity_values", <<chunk.entity>>)
    /\ pc' = "raised"
    /\ UNCHANGED <<files, dpos, parsed, entities, intents, examples,
                   entities_values, cursor, intents0, entities0>>

\* line 167, then the constructor returns
Return ==
    /\ pc = "fill"
    /\ cursor = Len(Positions(intents))
    /\ pc' = "done"
    /\ UNCHANGED <<files, dpos, parsed, entities, intents, examples,
                   entities_values, cursor, raised, intents0, entities0>>

-----------------------------------------------------------------------------
(* Dataset.from_yaml_files (lines 91-105) *)

\* for filename in filenames, for doc in yaml.safe_load_all(f)
DocPositions(fs) == Concat([f \in 1..Len(fs) |-> [d \in 1..Len(fs[f]) |-> <<f, d>>]])

DocAt(fs, p) == fs[p[1]][p[2]]

\* lines 97-98
LoadEntity ==
    /\ pc = "from_yaml_files"
    /\ LET pos == DocPositions(files) IN
          /\ dpos < Len(pos)
          /\ DocAt(files, pos[dpos + 1]).type = "entity"
          /\ entities' = Append(entities, EntityFromYaml(DocAt(files, pos[dpos + 1])))
    /\ parsed' = parsed + 1
    /\ dpos' = dpos + 1
    /\ UNCHANGED <<pc, files, intents, examples, entities_values, cursor, raised,
                   intents0, entities0>>

\* lines 99-100
LoadIntent ==
    /\ pc = "from_yaml_files"
    /\ LET pos == DocPositions(files) IN
          /\ dpos < Len(pos)
          /\ DocAt(files, pos[dpos + 1]).type = "intent"
          /\ intents' = Append(intents, IntentFromYaml(DocAt(files, pos[dpos + 1])))
    /\ parsed' = parsed + 1
    /\ dpos' = dpos + 1
    /\ UNCHANGED <<pc, files, entities, examples, entities_values, cursor, raised,
                   intents0, entities0>>

\* a document of another type passed over
SkipBadType ==
    /\ pc = "from_yaml_files"
    /\ LET pos == DocPositions(files) IN
          /\ dpos < Len(pos)
          /\ DocAt(files, pos[dpos + 1]).type \notin {"entity", "intent"}
    /\ dpos' = dpos + 1
    /\ UNCHANGED <<pc, files, parsed, entities, intents, examples,
                   entities_values, cursor, raised, intents0, entities0>>

\* lines 101-104: the error names the file (here its index in filenames)
\* and the value of doc.get("type")
RaiseBadType ==
    /\ pc = "from_yaml_files"
    /\ LET pos == DocPositions(files) IN
          /\ dpos < Len(pos)
          /\ LET doc_type == DocAt(files, pos[dpos + 1]).type IN
                /\ doc_type \notin {"entity", "intent"}
                /\ raised' = DatasetFormatError("from_yaml_files",
                                                <<pos[dpos + 1][1], doc_type>>)
    /\ pc' = "raised"
    /\ UNCHANGED <<files, dpos, parsed, entities, intents, examples,
                   entities_values, cursor, intents0, entities0>>

\* line 105: cls(language, intents, entities)
Construct ==
    /\ pc = "from_yaml_files"
    /\ dpos = Len(DocPositions(files))
    /\ intents0' = intents
    /\ entities0' = entities
    /\ pc' = "add_missing_entities"
    /\ UNCHANGED <<files, dpos, parsed, entities, intents, examples,
                   entities_values, cursor, raised>>

Next == LoadEntity \/ LoadIntent \/ RaiseBadType \/ Construct
           \/ AddMissingEntities \/ BuildValues \/ SkipChunk \/ FillChunk
           \/ RaiseNoValue \/ Return

-----------------------------------------------------------------------------
(* Inputs *)

Chunk(name, text) == [entity |-> name, text |-> text]

ChunkSet == {Chunk(CustomName, t) : t \in {None, "", "a", "b"}}
                \cup {Chunk(BuiltinName, None)}

RECURSIVE Nest(_, _, _)
\* the intents made of the chunks flat[k..], cut[j] telling whether chunk
\* j + 1 continues the utterance (0), opens an utterance (1) or an intent (2)
Nest(flat, cut, k) ==
    IF k > Len(flat) THEN <<>>
    ELSE LET rest == Nest(flat, cut, k + 1) IN
         IF k = Len(flat) THEN << << <<flat[k]>> >> >>
         ELSE IF cut[k] = 2 THEN << << <<flat[k]>> >> >> \o rest
         ELSE IF cut[k] = 1
              THEN << << <<flat[k]>> >> \o Head(rest) >> \o Tail(rest)
              ELSE << << <<flat[k]>> \o Head(Head(rest)) >> \o Tail(Head(rest)) >>
                       \o Tail(rest)

\* every nesting of at most n slot chunks into utterances and intents
IntentLists(n) ==
    UNION {{Nest(flat, cut, 1) : cut \in [1..(Len(flat) - 1) -> 0..2]} :
              flat \in SeqsUpTo(ChunkSet, n)}

Group(value, synonyms) == [value |-> value, synonyms |-> synonyms]
GroupSet == {Group("a", <<>>), Group("b", <<"y">>), Group("a", <<"b">>)}

Entity(name, utterances) == [name |-> name, utterances |-> utterances]

\* the entities the lists of entities are made of
EntitySet ==
    { Entity(CustomName, <<>>),
      Entity(CustomName, <<Group("a", <<>>)>>),
      Entity(CustomName, <<Group("b", <<"y">>)>>),
      NewEntity(BuiltinName) }

TwoValueCity == Entity(CustomName, <<Group("a", <<>>), Group("b", <<"y">>)>>)

\* slots of one entity in two utterances, three of them with a text
CityIntents ==
    << << <<Chunk(CustomName, None), Chunk(CustomName, "b")>>,
          <<Chunk(CustomName, "x"), Chunk(CustomName, "b"),
            Chunk(CustomName, None)>> >> >>

\* two intents, one of each entity
MixedIntents ==
    << << <<Chunk(BuiltinName, None)>> >>,
       << <<Chunk(CustomName, "a"), Chunk(CustomName, None)>> >> >>

\* slots of the builtin entity only, one of them with a text
BuiltinIntents ==
    << << <<Chunk(BuiltinName, "a")>>, <<Chunk(BuiltinName, None)>> >> >>

\* the intents and the provider's examples of the calls with many entities or values
SampleCalls ==
    { <<CityIntents, <<"x", "y">> >>,
      <<MixedIntents, <<"x", "y">> >>,
      <<MixedIntents, <<>> >>,
      <<BuiltinIntents, <<"x", "y">> >> }

DocSet ==
    { [type |-> "entity", body |-> Entity(CustomName, <<Group("a", <<>>)>>)],
      [type |-> "intent", body |-> << <<Chunk(CustomName, None), Chunk(CustomName, "b")>> >>],
      [type |-> "intent", body |-> << <<Chunk(BuiltinName, None)>> >>],
      [type |-> "foo", body |-> <<>>],
      [type |-> None, body |-> <<>>] }

RECURSIVE Split(_, _, _)
\* the files made of the documents flat[k..], cut[j] telling whether document
\* j + 1 opens a file
Split(flat, cut, k) ==
    IF k > Len(flat) THEN <<>>
    ELSE LET rest == Split(flat, cut, k + 1) IN
         IF k = Len(flat) \/ cut[k] THEN << <<flat[k]>> >> \o rest
         ELSE << <<flat[k]>> \o Head(rest) >> \o Tail(rest)

FileLists(n) ==
    UNION {{Split(flat, cut, 1) : cut \in [1..(Len(flat) - 1) -> BOOLEAN]} :
              flat \in SeqsUpTo(DocSet, n)}

\* Dataset(language, intents, entities) called directly
Call(ents, ints, ex) ==
    /\ pc = "add_missing_entities"
    /\ files = <<>> /\ dpos = 0 /\ parsed = 0
    /\ entities = ents /\ entities0 = ents
    /\ intents = ints /\ intents0 = ints
    /\ examples = [n \in {BuiltinName} |-> ex]
    /\ entities_values = <<>>
    /\ cursor = 0
    /\ raised = NoError

\* Dataset.from_yaml_files(language, filenames) called
Load(fs, ex) ==
    /\ pc = "from_yaml_files"
    /\ files = fs /\ dpos = 0 /\ parsed = 0
    /\ entities = <<>> /\ entities0 = <<>>
    /\ intents = <<>> /\ intents0 = <<>>
    /\ examples = [n \in {BuiltinName} |-> ex]
    /\ entities_values = <<>>
    /\ cursor = 0
    /\ raised = NoError

\* every nesting of the slot chunks, few entities
InitChunks ==
    \E ents \in {<<>>, <<TwoValueCity>>}, ints \in IntentLists(MaxChunks) :
        Call(ents, ints, <<"x", "y">>)

\* every list of entities, two of one name included, few intents
InitEntities ==
    \E ents \in SeqsUpTo(EntitySet, MaxEntities), call \in SampleCalls :
        Call(ents, call[1], call[2])

\* every list of declared value groups of one entity, few intents
InitValues ==
    \E us \in SeqsUpTo(GroupSet, MaxValues), call \in SampleCalls :
        Call(<<Entity(CustomName, us)>>, call[1], call[2])

\* every list of files
InitFiles == \E fs \in FileLists(MaxDocs) : Load(fs, <<"x", "y">>)

Init == InitChunks \/ InitEntities \/ InitValues \/ InitFiles

Spec == Init /\ [][Next]_vars

-----------------------------------------------------------------------------
(* Vocabulary of the properties: old is SlotChunks(intents0), the slot      *)
(* chunks as passed to the constructor, now is SlotChunks(intents)          *)

\* the constructor has passed _add_missing_entities and has not raised
Closed == pc \in {"ensure_entity_values", "fill", "done"}

\* the constructor has built the supplies (line 155 is passed)
Supplied == pc \in {"fill", "done"}
               \/ (pc = "raised" /\ raised.at = "_ensure_entity_values")

DistinctNames(ents) ==
    \A e, f \in 1..Len(ents) : ents[e].name = ents[f].name => e = f

NoDuplicates(seq) == \A i, j \in 1..Len(seq) : seq[i] = seq[j] => i = j

\* the entity the supply of a name is built from (lines 154-155)
EntityNamed(name) == entities[LastIndex(entities, name)]
BuiltinNamed(name) == is_builtin(NewEntity(name))

\* the supply lists, from the constructor's inputs
Supplies0 == BuildEntitiesValues(entities, intents0)

\* the slot chunks of the entity of chunk j that need synthesis, up to chunk j
Rank(old, j) == Cardinality({i \in 1..j : /\ old[i].entity = old[j].entity
                                          /\ old[i].text = None})

\* the draws made from the supply of the entity once n chunks are visited
Draws(old, name, n) == Cardinality({i \in 1..n : /\ old[i].entity = name
                                                 /\ old[i].text = None})

\* the texts set on the slot chunks of the entity
PresetTexts(old, name) ==
    {old[j].text : j \in {i \in 1..Len(old) : old[i].entity = name /\ old[i].text # None}}

\* the first slot chunk of the entity that carries the text
FirstSeen(old, name, text) ==
    CHOOSE j \in 1..Len(old) :
        /\ old[j].entity = name /\ old[j].text = text
        /\ \A i \in 1..(j - 1) : ~(old[i].entity = name /\ old[i].text = text)

\* the supply of the name is empty: no example for a builtin entity; no
\* declared value and no non-empty slot text otherwise
EmptySupply(old, name) ==
    IF BuiltinNamed(name) THEN examples[name] = <<>>
    ELSE /\ EntityNamed(name).utterances = <<>>
         /\ PresetTexts(old, name) \subseteq {""}

-----------------------------------------------------------------------------
(* C1. Total slot fill: when the constructor returns without raising, every *)
(* slot chunk of every utterance of every intent has a text that is not     *)
(* None.                                                                    *)
TotalSlotFill ==
    pc = "done" => \A i \in 1..Len(intents) :
                       \A u \in 1..Len(intents[i]) :
                           \A c \in 1..Len(intents[i][u]) :
                               intents[i][u][c].text # None

\* two slots of two entities had no text
TotalSlotFillWitness ==
    /\ pc = "done"
    /\ LET old == SlotChunks(intents0) IN
          \E i, j \in 1..Len(old) : /\ old[i].text = None
                                    /\ old[j].text = None
                                    /\ old[i].entity # old[j].entity

(* C2. Closure completeness without duplicates: when the entities passed    *)
(* have pairwise distinct names, after _add_missing_entities the entities   *)
(* list holds exactly one entity for every name a slot chunk references,    *)
(* the entities passed are its prefix, unchanged and in their order, and    *)
(* every entity after them is a new entity without values whose name is     *)
(* referenced and was not passed.                                           *)
ClosureComplete ==
    (Closed /\ DistinctNames(entities0)) =>
        LET old == SlotChunks(intents0) IN
        /\ \A j \in 1..Len(old) :
               Cardinality({e \in 1..Len(entities) :
                               entities[e].name = old[j].entity}) = 1
        /\ Len(entities) >= Len(entities0)
        /\ SubSeq(entities, 1, Len(entities0)) = entities0
        /\ \A e \in (Len(entities0) + 1)..Len(entities) :
               /\ entities[e] = NewEntity(entities[e].name)
               /\ \E j \in 1..Len(old) : old[j].entity = entities[e].name
               /\ \A f \in 1..Len(entities0) : entities0[f].name # entities[e].name

\* one entity passed, another referenced by several slot chunks
ClosureCompleteWitness ==
    /\ Closed
    /\ entities0 = <<NewEntity(BuiltinName)>>
    /\ entities = <<NewEntity(BuiltinName), NewEntity(CustomName)>>
    /\ Len(intents0) = 2
    /\ LET old == SlotChunks(intents0) IN
          /\ \E i, j \in 1..Len(old) : /\ i # j
                                       /\ old[i].entity = CustomName
                                       /\ old[j].entity = CustomName
          /\ \E i \in 1..Len(old) : old[i].entity = BuiltinName

(* C3. Round-robin supply with one cursor per entity: for every entity      *)
(* name whose supply list P is not empty, the k-th slot chunk of that       *)
(* entity that needs synthesis, counted in traversal order across all       *)
(* intents, is assigned P[(k-1) mod |P|] (sequences here start at 1).       *)
RoundRobin ==
    Supplied =>
        LET old == SlotChunks(intents0)
            now == SlotChunks(intents)
            supplies == Supplies0
        IN \A j \in 1..cursor :
               old[j].text = None =>
                   LET P == supplies[old[j].entity].items IN
                       /\ P # <<>>
                       /\ now[j].text = P[((Rank(old, j) - 1) % Len(P)) + 1]

\* three slots of one entity drew from a supply of two values: a, b, a
RoundRobinWitness ==
    /\ pc = "done"
    /\ LET old == SlotChunks(intents0)
           now == SlotChunks(intents)
       IN \E i, j, k \in 1..Len(old) :
              /\ i < j /\ j < k
              /\ old[i].text = None /\ old[j].text = None /\ old[k].text = None
              /\ old[i].entity = old[j].entity
              /\ old[j].entity = old[k].entity
              /\ Len(entities_values[old[i].entity].items) = 2
              /\ now[i].text = now[k].text
              /\ now[i].text # now[j].text

(* C4. Explicit text is never overwritten: a slot chunk whose text is not   *)
(* None when the constructor is called keeps exactly that text (the empty   *)
(* string included), and it draws nothing: the position of every supply is  *)
(* the number of its entity's visited chunks that had no text, modulo the   *)
(* supply's length.                                                         *)
ExplicitTextKept ==
    LET old == SlotChunks(intents0)
        now == SlotChunks(intents)
    IN /\ \A j \in 1..Len(old) : old[j].text # None => now[j].text = old[j].text
       /\ Supplied =>
              \A name \in DOMAIN entities_values :
                  LET it == entities_values[name] IN
                      it.items # <<>> => it.pos = Draws(old, name, cursor) % Len(it.items)

\* an empty text of the entity was visited between two draws
ExplicitTextKeptWitness ==
    /\ pc = "done"
    /\ LET old == SlotChunks(intents0)
           now == SlotChunks(intents)
       IN \E i, j \in 1..Len(old) :
              /\ i < j
              /\ old[i].text = None /\ old[j].text = None
              /\ old[i].entity = old[j].entity
              /\ Len(entities_values[old[i].entity].items) = 2
              /\ \E m \in (i + 1)..(j - 1) : /\ old[m].text = ""
                                             /\ old[m].entity = old[i].entity
                                             /\ now[m].text = ""

(* C5 as stated: for every slot chunk with a text t that is not None,       *)
(* referencing entity E, t is a member of E's value pool.                   *)
PresetTextInPool ==
    Supplied =>
        LET old == SlotChunks(intents0) IN
            \A j \in 1..Len(old) :
                old[j].text # None =>
                    old[j].text \in Range(entities_values[old[j].entity].items)

(* C5 as amended: for every slot chunk with a non-empty text t referencing  *)
(* an entity E that is not builtin, t is a member of E's value pool; the    *)
(* supply of a builtin entity is the provider's example list alone.         *)
PresetTextFeedsPool ==
    Supplied =>
        LET old == SlotChunks(intents0) IN
        /\ \A j \in 1..Len(old) :
               (old[j].text \notin {None, ""} /\ ~BuiltinNamed(old[j].entity)) =>
                   old[j].text \in Range(entities_values[old[j].entity].items)
        /\ \A name \in DOMAIN entities_values :
               BuiltinNamed(name) => entities_values[name].items = examples[name]

\* a slot without text received the text another slot of the entity carries,
\* the entity declaring no value
PresetTextFeedsPoolWitness ==
    /\ pc = "done"
    /\ LET old == SlotChunks(intents0)
           now == SlotChunks(intents)
       IN \E i, j \in 1..Len(old) :
              /\ old[i].text = None
              /\ old[j].text \notin {None, ""}
              /\ old[i].entity = old[j].entity
              /\ ~BuiltinNamed(old[i].entity)
              /\ EntityNamed(old[i].entity).utterances = <<>>
              /\ now[i].text = old[j].text

(* C6 as stated: an entity that is not builtin, declares no value and has   *)
(* no slot text makes the construction fail: the constructor never returns. *)
EmptyPoolAlwaysFails ==
    pc = "done" =>
        LET old == SlotChunks(intents0) IN
            \A e \in 1..Len(entities) :
                ~(/\ ~is_builtin(entities[e])
                  /\ entities[e].utterances = <<>>
                  /\ PresetTexts(old, entities[e].name) = {})

(* C6 as amended: the construction fails exactly when some slot chunk       *)
(* without text references an entity whose supply is empty (for an entity   *)
(* that is not builtin: no declared value and no non-empty slot text); the  *)
(* DatasetFormatError names the entity of the first such chunk in traversal *)
(* order, and the chunks before it have been filled.                        *)
EmptyPoolFailure ==
    LET old == SlotChunks(intents0)
        now == SlotChunks(intents)
    IN /\ pc = "done" =>
              \A j \in 1..Len(old) :
                  old[j].text = None => ~EmptySupply(old, old[j].entity)
       /\ (pc = "raised" /\ raised.at = "_ensure_entity_values") =>
              /\ cursor < Len(old)
              /\ old[cursor + 1].text = None
              /\ EmptySupply(old, old[cursor + 1].entity)
              /\ raised = DatasetFormatError("_ensure_entity_values",
                                             <<old[cursor + 1].entity>>)
              /\ \A i \in 1..cursor :
                     /\ old[i].text = None => ~EmptySupply(old, old[i].entity)
                     /\ now[i].text # None

\* the failure names an entity whose only slot text is the empty string,
\* after a slot of another entity was filled
EmptyPoolFailureWitness ==
    /\ pc = "raised"
    /\ raised = DatasetFormatError("_ensure_entity_values", <<CustomName>>)
    /\ LET old == SlotChunks(intents0) IN
          /\ PresetTexts(old, CustomName) = {""}
          /\ cursor >= 1
          /\ \E i \in 1..cursor : old[i].text = None

-----------------------------------------------------------------------------
FlatDocs == Concat(files)
BadType(doc) == doc.type \notin {"entity", "intent"}
Bodies(docs) == [k \in 1..Len(docs) |-> docs[k].body]
IsEntityDoc(doc) == doc.type = "entity"
IsIntentDoc(doc) == doc.type = "intent"
\* the bodies of the entity (intent) documents among the first n, in order
EntityBodies(docs, n) == Bodies(SelectSeq(SubSeq(docs, 1, n), IsEntityDoc))
IntentBodies(docs, n) == Bodies(SelectSeq(SubSeq(docs, 1, n), IsIntentDoc))

PoolHasNoDuplicates ==
    Supplied => \A name \in DOMAIN entities_values :
                    ~BuiltinNamed(name) => NoDuplicates(entities_values[name].items)

(* C9 as amended: the pool of an entity that is not builtin is its declared *)
(* values in declaration order, kept as declared (a value declared twice    *)
(* occurs twice), followed by the non-empty texts set on its slots that are *)
(* not declared values, each once, in first-seen traversal order; so the    *)
(* pool has no duplicates when the declared values have none.               *)
PoolOrder ==
    Supplied =>
        LET old == SlotChunks(intents0) IN
        \A name \in DOMAIN entities_values :
            ~BuiltinNamed(name) =>
                LET declared == DeclaredValues(EntityNamed(name))
                    items == entities_values[name].items
                    seen == SubSeq(items, Len(declared) + 1, Len(items))
                IN /\ Len(items) >= Len(declared)
                   /\ SubSeq(items, 1, Len(declared)) = declared
                   /\ NoDuplicates(seen)
                   /\ Range(seen) = (PresetTexts(old, name) \ {""}) \ Range(declared)
                   /\ \A i, j \in 1..Len(seen) :
                          i < j => FirstSeen(old, name, seen[i])
                                       < FirstSeen(old, name, seen[j])
                   /\ NoDuplicates(declared) => NoDuplicates(items)

\* a value declared twice, then two slot texts in the order of the slots,
\* the first of them set on two slots
PoolOrderWitness ==
    /\ Supplied
    /\ LET old == SlotChunks(intents0) IN
       \E name \in DOMAIN entities_values :
          /\ ~BuiltinNamed(name)
          /\ Len(DeclaredValues(EntityNamed(name))) = 2
          /\ ~NoDuplicates(DeclaredValues(EntityNamed(name)))
          /\ Len(entities_values[name].items) = 4
          /\ \E i, j \in 1..Len(old) :
                /\ i # j
                /\ old[i].entity = name /\ old[j].entity = name
                /\ old[i].text = old[j].text
                /\ old[i].text = entities_values[name].items[3]

(* C10. Two-phase assembly: the supplies are built from the slot texts as   *)
(* passed to the constructor, before any text is written: a synthesized     *)
(* text is never added to a supply, a text set on a later slot is in the    *)
(* supply when an earlier slot draws, and the fill phase changes nothing    *)
(* but the text of the visited slot chunks that had none.                   *)
TwoPhase ==
    Supplied =>
        LET old == SlotChunks(intents0)
            now == SlotChunks(intents)
            supplies == Supplies0
        IN /\ DOMAIN entities_values = {entities[e].name : e \in 1..Len(entities)}
           /\ \A name \in DOMAIN entities_values :
                  entities_values[name].items = supplies[name].items
           /\ entities = _add_missing_entities(entities0, intents0)
           /\ intents = [i \in 1..Len(intents0) |->
                             [u \in 1..Len(intents0[i]) |->
                                 [c \in 1..Len(intents0[i][u]) |->
                                     [intents0[i][u][c] EXCEPT
                                         !.text = intents[i][u][c].text]]]]
           /\ \A j \in 1..Len(old) :
                  (j > cursor \/ old[j].text # None) => now[j].text = old[j].text

\* the first slot received the text set on a later slot of a later intent,
\* and the second slot without text received it again
TwoPhaseWitness ==
    /\ pc = "done"
    /\ LET old == SlotChunks(intents0)
           now == SlotChunks(intents)
           pos == Positions(intents0)
       IN \E i, j, k \in 1..Len(old) :
              /\ i < j /\ j < k
              /\ pos[j][1] < pos[k][1]
              /\ old[i].text = None /\ old[j].text = None
              /\ old[k].text \notin {None, ""}
              /\ old[i].entity = old[k].entity
              /\ old[j].entity = old[k].entity
              /\ entities_values[old[k].entity].items = <<old[k].text>>
              /\ now[i].text = old[k].text
              /\ now[j].text = old[k].text

====
